---------------------------- MODULE Spec2Model ----------------------------
(***************************************************************************)
(* Model of app.py, the tender ("appel d'offre") timeline dashboard:       *)
(* categorize_lot, prepare_timeline_data and the filter / statistics part  *)
(* of main.                                                                *)
(*                                                                         *)
(* A Python str is a sequence of one-character tokens.  A character that   *)
(* is not ASCII is written as an ASCII token: "e_acute" is e-acute,        *)
(* "oe_lig" the oe ligature, "a_circ" a-circumflex, "E_acute" and "OE_lig" *)
(* their capitals.                                                         *)
(*                                                                         *)
(* A JSON value of a raw record is tagged with its Python type:            *)
(*   [t |-> "str", str |-> chars]     [t |-> "list", items |-> <<values>>] *)
(*   [t |-> "null"]                   [t |-> "int", int |-> n]             *)
(*   [t |-> "date", day |-> d]        a str holding the ISO date of day d  *)
(* A raw record is a function from the keys it has to such values.         *)
(* An instant is a number of seconds; day d starts at d * SecondsPerDay.   *)
(* The category labels and the two status texts are written without their  *)
(* accents where they are only compared, never searched.                   *)
(***************************************************************************)
EXTENDS Integers, Sequences, FiniteSets, TLC

VARIABLES
    file,       \* content of data.json: a sequence of raw records
    now,        \* the wall clock when it was last read, in seconds
    data,       \* main: data = load_data()
    today,      \* prepare_timeline_data: today = pd.Timestamp.now()
    table,      \* main: df, the rows appended to timeline_data
    warnings,   \* the st.warning messages of prepare_timeline_data
    crashed,    \* an exception left prepare_timeline_data uncaught
    selection,  \* the values of the six filter widgets
    filtered,   \* main: filtered_df
    stats,      \* the four st.metric values, or NoStats
    view        \* what was last displayed: "init", "built", "nodata",
                \* "crashed", "dashboard", "nomatch"

vars == <<file, now, data, today, table, warnings, crashed, selection,
          filtered, stats, view>>

-----------------------------------------------------------------------------
(* Python str operations *)

UpperChars ==
    <<"A","B","C","D","E","F","G","H","I","J","K","L","M","N","O","P","Q",
      "R","S","T","U","V","W","X","Y","Z","E_acute","OE_lig","A_circ">>

LowerChars ==
    <<"a","b","c","d","e","f","g","h","i","j","k","l","m","n","o","p","q",
      "r","s","t","u","v","w","x","y","z","e_acute","oe_lig","a_circ">>

\* the lower-case character of each upper-case character
LowerOf ==
    [c \in {UpperChars[i] : i \in 1..Len(UpperChars)} |->
        LowerChars[CHOOSE i \in 1..Len(UpperChars) : UpperChars[i] = c]]

lowerChar(c) == IF c \in DOMAIN LowerOf THEN LowerOf[c] ELSE c

\* str.lower()
lower(s) == [i \in 1..Len(s) |-> lowerChar(s[i])]

\* keyword in lot_name: kw is found at some position of s
contains(kw, s) ==
    \E i \in 0..(Len(s) - Len(kw)) : \A k \in 1..Len(kw) : s[i + k] = kw[k]

\* sep.join(parts)
RECURSIVE join(_, _)
join(sep, parts) ==
    IF Len(parts) = 0 THEN <<>>
    ELSE IF Len(parts) = 1 THEN parts[1]
    ELSE parts[1] \o sep \o join(sep, Tail(parts))

\* s.split(',') : the pieces between the commas, at least one piece
RECURSIVE split(_)
split(s) ==
    IF \E i \in 1..Len(s) : s[i] = ","
    THEN LET k == CHOOSE i \in 1..Len(s) :
                      /\ s[i] = ","
                      /\ \A j \in 1..(i - 1) : s[j] # ","
         IN  <<SubSeq(s, 1, k - 1)>> \o split(SubSeq(s, k + 1, Len(s)))
    ELSE <<s>>

\* s.strip() : without its leading and trailing blanks
RECURSIVE strip(_)
strip(s) ==
    IF Len(s) = 0 THEN s
    ELSE IF s[1] = " " THEN strip(Tail(s))
    ELSE IF s[Len(s)] = " " THEN strip(SubSeq(s, 1, Len(s) - 1))
    ELSE s

CommaSpace == <<",", " ">>

Range(s) == {s[i] : i \in 1..Len(s)}

-----------------------------------------------------------------------------
(* categorize_lot *)

Cat(name, kws) == [category |-> name, keywords |-> kws]

category_keywords ==
    << Cat("Viande",
           << <<"v","i","a","n","d","e">>, <<"b","oe_lig","u","f">>,
              <<"v","e","a","u">>, <<"p","o","r","c">>,
              <<"a","g","n","e","a","u">>, <<"m","o","u","t","o","n">> >>),
       Cat("Volaille",
           << <<"v","o","l","a","i","l","l","e">>,
              <<"p","o","u","l","e","t">>, <<"d","i","n","d","e">> >>),
       Cat("Charcuterie",
           << <<"c","h","a","r","c","u","t","e","r","i","e">> >>),
       Cat("Produits Laitiers",
           << <<"l","a","i","t">>,
              <<"p","r","o","d","u","i","t","s"," ",
                "l","a","i","t","i","e","r","s">>,
              <<"o","v","o","p","r","o","d","u","i","t","s">> >>),
       Cat("Fruits et Legumes",
           << <<"f","r","u","i","t","s">>,
              <<"l","e_acute","g","u","m","e","s">>,
              <<"a","r","o","m","a","t","e","s">> >>),
       Cat("Surgeles",
           << <<"s","u","r","g","e","l","e_acute">> >>),
       Cat("BIO", << <<"b","i","o">> >>),
       Cat("Epicerie",
           << <<"e_acute","p","i","c","e","r","i","e">>,
              <<"f","e_acute","c","u","l","e","n","t","s">>,
              <<"p","a_circ","t","e","s">>, <<"r","i","z">>,
              <<"c","o","n","d","i","m","e","n","t","s">>,
              <<"e_acute","p","i","c","e","s">> >>),
       Cat("Poisson", << <<"p","o","i","s","s","o","n">> >>),
       Cat("Boissons", << <<"b","o","i","s","s","o","n">> >>),
       Cat("Desserts",
           << <<"d","e","s","s","e","r","t">>,
              <<"p","a_circ","t","i","s","s","e","r","i","e">>,
              <<"c","o","m","p","o","t","e">> >>) >>

\* the body of the loop of categorize_lot: is `category` appended
lot_matches(entry, lot_name) ==
    \E k \in 1..Len(entry.keywords) : contains(entry.keywords[k], lot_name)

\* a variant that forgets lot_name.lower()
categorize_lot_nolower(lot_name) ==
    LET hit == SelectSeq(category_keywords,
                         LAMBDA e : lot_matches(e, lot_name))
    IN  [i \in 1..Len(hit) |-> hit[i].category]

\* categorize_lot(lot_name): the list of the categories, in taxonomy order
categorize_lot(lot_name) ==
    LET hit == SelectSeq(category_keywords,
                         LAMBDA e : lot_matches(e, lower(lot_name)))
    IN  [i \in 1..Len(hit) |-> hit[i].category]

-----------------------------------------------------------------------------
(* raw records *)

Str(s)     == [t |-> "str", str |-> s]
List(l)    == [t |-> "list", items |-> l]
Num(n)     == [t |-> "int", int |-> n]
Null       == [t |-> "null"]
DateStr(d) == [t |-> "date", day |-> d]

Has(item, key) == key \in DOMAIN item

\* item.get(key, default)
Get(item, key, default) == IF Has(item, key) THEN item[key] ELSE default

\* str(x) of a str or of None
pystr(x) == IF x.t = "str" THEN x.str ELSE <<"N","o","n","e">>

AllStr(l) == \A i \in 1..Len(l) : l[i].t = "str"

\* the str values of a list of str
Texts(l) == [i \in 1..Len(l) |-> l[i].str]

-----------------------------------------------------------------------------
(* prepare_timeline_data *)

SecondsPerDay == 86400
TitleMax == 80

Ellipsis == <<".", ".", ".">>
EnCours == <<"E","n"," ","c","o","u","r","s">>
Termine == <<"T","e","r","m","i","n","e_acute">>
IdInconnu == Str(<<"I","D"," ","i","n","c","o","n","n","u">>)

NaT == [k |-> "NaT"]
Timestamp(s) == [k |-> "ts", s |-> s]
Raises(exc) == [k |-> "raise", exc |-> exc]

\* pd.to_datetime(x) of a date str, of any other text, of None
to_datetime(x) ==
    IF x.t = "date" THEN Timestamp(x.day * SecondsPerDay)
    ELSE IF x.t = "null" THEN NaT
    ELSE IF x.t = "str" /\ x.str = <<>> THEN NaT
    ELSE Raises("ValueError")

\* (end_date - today).days : Timedelta.days is the floor of the difference
days_between(end_date, today_) == (end_date - today_) \div SecondsPerDay

\* "Termine" if days_left < 0 else "En cours"
status_of(days_left) == IF days_left < 0 THEN Termine ELSE EnCours

\* the title with the cut but without the ellipsis
task_title_noellipsis(status, objet) ==
    <<"[">> \o status \o <<"]", " ">> \o
    (IF Len(objet) > TitleMax THEN SubSeq(objet, 1, TitleMax) ELSE objet)

\* f"[{status}] " + (objet[:80] + '...' if len(objet) > 80 else objet)
task_title(status, objet) ==
    <<"[">> \o status \o <<"]", " ">> \o
    (IF Len(objet) > TitleMax
     THEN SubSeq(objet, 1, TitleMax) \o Ellipsis
     ELSE objet)

\* the categories of all the lots: all_categories.update(categorize_lot(lot))
all_categories_of(lots) ==
    UNION {Range(categorize_lot(lots[i].str)) : i \in 1..Len(lots)}

\* the except clause: st.warning(f"Erreur avec l'entree: {idweb} - {e}")
Warned(item, exc, arg) ==
    [kind |-> "warning",
     msg  |-> [id |-> Get(item, "idweb", IdInconnu), exc |-> exc, arg |-> arg]]

Uncaught(exc) == [kind |-> "raise", exc |-> exc]
Skipped == [kind |-> "skip"]

\* lines 58-80, once both dates are timestamps
build_row(item, start_date, end_date, today_) ==
    LET days_left == days_between(end_date, today_)
        status    == status_of(days_left)
    IN
    IF ~Has(item, "titulaire") THEN Warned(item, "KeyError", "titulaire")
    ELSE IF item.titulaire.t = "list" /\ ~AllStr(item.titulaire.items)
    THEN Warned(item, "TypeError", "join")
    ELSE IF ~Has(item, "code_departement")
    THEN Warned(item, "KeyError", "code_departement")
    ELSE
    LET titulaires  == IF item.titulaire.t = "list"
                       THEN join(CommaSpace, Texts(item.titulaire.items))
                       ELSE pystr(item.titulaire)
        departments == IF item.code_departement.t = "list"
                       THEN item.code_departement.items
                       ELSE <<Str(pystr(item.code_departement))>>
        lots        == Get(item, "LOTS", List(<<>>))
    IN
    IF lots.t # "list" THEN Warned(item, "TypeError", "iter")
    ELSE IF ~AllStr(lots.items) THEN Uncaught("AttributeError")
    ELSE IF ~Has(item, "objet") THEN Warned(item, "KeyError", "objet")
    ELSE IF item.objet.t # "str" THEN Warned(item, "TypeError", "objet")
    ELSE IF ~Has(item, "nomacheteur")
    THEN Warned(item, "KeyError", "nomacheteur")
    ELSE IF ~AllStr(departments) THEN Warned(item, "TypeError", "join")
    ELSE
    [kind |-> "row",
     row  |-> [Task        |-> task_title(status, item.objet.str),
               Start       |-> start_date,
               Finish      |-> end_date,
               Resource    |-> item.nomacheteur,
               Department  |-> join(CommaSpace, Texts(departments)),
               Departments |-> Texts(departments),
               Titulaire   |-> titulaires,
               Days_Left   |-> days_left,
               Status      |-> status,
               Lots        |-> Texts(lots.items),
               Categories  |-> all_categories_of(lots.items),
               URL         |-> Get(item, "url_avis", Str(<<>>))]]

\* one iteration of the loop of prepare_timeline_data (lines 47-83)
normalize(item, today_) ==
    IF ~Has(item, "date_debut") THEN Warned(item, "KeyError", "date_debut")
    ELSE
    LET start_date == to_datetime(item.date_debut) IN
    IF start_date.k = "raise" THEN Warned(item, start_date.exc, "date_debut")
    ELSE IF ~Has(item, "date_fin") THEN Warned(item, "KeyError", "date_fin")
    ELSE
    LET end_date == to_datetime(item.date_fin) IN
    IF end_date.k = "raise" THEN Warned(item, end_date.exc, "date_fin")
    ELSE IF start_date.k = "NaT" \/ end_date.k = "NaT" THEN Skipped
    ELSE build_row(item, start_date.s, end_date.s, today_)

RECURSIVE build_loop(_, _, _)
build_loop(items, today_, acc) ==
    IF Len(items) = 0 THEN acc
    ELSE
    LET r == normalize(Head(items), today_) IN
    IF r.kind = "raise"
    THEN [table |-> <<>>, warnings |-> acc.warnings, crashed |-> TRUE]
    ELSE build_loop(Tail(items), today_,
           IF r.kind = "row"
           THEN [acc EXCEPT !.table = Append(@, r.row)]
           ELSE IF r.kind = "warning"
           THEN [acc EXCEPT !.warnings = Append(@, r.msg)]
           ELSE acc)

\* prepare_timeline_data(data), with the instant Timestamp.now() returns;
\* an uncaught exception leaves no table
prepare_timeline_data(data_, today_) ==
    build_loop(data_, today_,
               [table |-> <<>>, warnings |-> <<>>, crashed |-> FALSE])

-----------------------------------------------------------------------------
(* main: the filter widgets *)

TousLesAO == <<"T","o","u","s"," ","l","e","s"," ","A","O">>
SeTermineDans == <<"S","e"," ","t","e","r","m","i","n","e"," ","d","a","n","s"," ">>
Dans3Mois == SeTermineDans \o <<"3"," ","m","o","i","s">>
Dans6Mois == SeTermineDans \o <<"6"," ","m","o","i","s">>
Dans1An == SeTermineDans \o <<"1"," ","a","n">>
Dans1AnEtDemi == SeTermineDans \o <<"1"," ","a","n"," ","e","t"," ","d","e","m","i">>
Dans2Ans == SeTermineDans \o <<"2"," ","a","n","s">>

\* the options of the selectbox (lines 190-195)
expiration_options ==
    {TousLesAO, Dans3Mois, Dans6Mois, Dans1An, Dans1AnEtDemi, Dans2Ans}

\* the options of the status multiselect (line 201)
status_options == {EnCours, Termine}

Rows(df) == {df[i] : i \in 1..Len(df)}

\* sorted(list(set(df['Resource']))), as a set
acheteurs_options(df) == {r.Resource : r \in Rows(df)}

\* the individual names of a joined Titulaire cell:
\* t.strip() for t in x.split(',')
titulaire_names(x) == {strip(t) : t \in Range(split(x))}

\* line 172, as a set
titulaires_options(df) == UNION {titulaire_names(r.Titulaire) : r \in Rows(df)}

\* line 180, as a set
departments_options(df) == UNION {Range(r.Departments) : r \in Rows(df)}

\* line 207, as a set
categories_options(df) == UNION {r.Categories : r \in Rows(df)}

\* the widget values of a first run (default=["En cours"] at line 202)
DefaultSelection ==
    [acheteurs   |-> {},
     titulaires  |-> {},
     departments |-> {},
     expiration  |-> TousLesAO,
     status      |-> {EnCours},
     categories  |-> {}]

-----------------------------------------------------------------------------
(* main: the filters (lines 215-242) *)

by_acheteurs(df, selected_acheteurs) ==
    IF selected_acheteurs # {}
    THEN SelectSeq(df, LAMBDA r : r.Resource \in selected_acheteurs)
    ELSE df

by_titulaires(df, selected_titulaires) ==
    IF selected_titulaires # {}
    THEN SelectSeq(df, LAMBDA r : \E t \in Range(split(r.Titulaire)) :
                                 strip(t) \in selected_titulaires)
    ELSE df

by_departments(df, selected_departments) ==
    IF selected_departments # {}
    THEN SelectSeq(df, LAMBDA r : \E dept \in Range(r.Departments) :
                                 dept \in selected_departments)
    ELSE df

\* the if / elif chain of lines 226-236, in its order
by_expiration(df, expiration_filter) ==
    IF expiration_filter # TousLesAO
    THEN IF contains(<<"3"," ","m","o","i","s">>, expiration_filter)
         THEN SelectSeq(df, LAMBDA r : r.Days_Left <= 90)
         ELSE IF contains(<<"6"," ","m","o","i","s">>, expiration_filter)
         THEN SelectSeq(df, LAMBDA r : r.Days_Left <= 180)
         ELSE IF contains(<<"1"," ","a","n">>, expiration_filter)
         THEN SelectSeq(df, LAMBDA r : r.Days_Left <= 365)
         ELSE IF contains(<<"1"," ","a","n"," ","e","t"," ","d","e","m","i">>,
                          expiration_filter)
         THEN SelectSeq(df, LAMBDA r : r.Days_Left <= 547)
         ELSE IF contains(<<"2"," ","a","n","s">>, expiration_filter)
         THEN SelectSeq(df, LAMBDA r : r.Days_Left <= 730)
         ELSE df
    ELSE df

by_status(df, status_filter) ==
    IF status_filter # {}
    THEN SelectSeq(df, LAMBDA r : r.Status \in status_filter)
    ELSE df

by_categories(df, selected_categories) ==
    IF selected_categories # {}
    THEN SelectSeq(df, LAMBDA r : \E cat \in r.Categories :
                                 cat \in selected_categories)
    ELSE df

\* filtered_df after the six steps
apply_filters(df, sel) ==
    by_categories(
      by_status(
        by_expiration(
          by_departments(
            by_titulaires(
              by_acheteurs(df, sel.acheteurs),
              sel.titulaires),
            sel.departments),
          sel.expiration),
        sel.status),
      sel.categories)

-----------------------------------------------------------------------------
(* main: the statistics (lines 258-272) *)

NoStats == [shown |-> FALSE]

\* "Se terminent dans 3 mois" without its lower bound
expiring_soon_nolower(df) == Len(SelectSeq(df, LAMBDA r : r.Days_Left <= 90))

\* line 268
expiring_soon(df) ==
    Len(SelectSeq(df, LAMBDA r : r.Days_Left <= 90 /\ r.Days_Left >= 0))

statistics(df) ==
    [shown         |-> TRUE,
     total         |-> Len(df),
     active_aos    |-> Len(SelectSeq(df, LAMBDA r : r.Status = EnCours)),
     expiring_soon |-> expiring_soon(df),
     finished_aos  |-> Len(SelectSeq(df, LAMBDA r : r.Status = Termine))]

-----------------------------------------------------------------------------
(* main: one run of the script (lines 150-312) *)

\* a run that keeps the filtered rows as its table
main_inplace(file_, now_, sel) ==
    LET built == prepare_timeline_data(file_, now_)
        f     == apply_filters(built.table, sel)
    IN  [data |-> file_, today |-> now_, table |-> f,
         warnings |-> built.warnings, crashed |-> built.crashed,
         selection |-> sel, filtered |-> f,
         stats |-> IF f # <<>> THEN statistics(f) ELSE NoStats,
         view |-> IF f # <<>> THEN "dashboard" ELSE "nomatch"]

\* Streamlit runs main from its first line at every interaction: the run
\* reads data.json and the clock again.  sel holds the widget values of the
\* session.  Widgets a run does not reach are forgotten and are back at
\* their defaults in the next run.
main(file_, now_, sel) ==
    LET built == prepare_timeline_data(file_, now_)
        df    == built.table
        none  == [data |-> file_, today |-> now_, table |-> df,
                  warnings |-> built.warnings, crashed |-> built.crashed,
                  selection |-> DefaultSelection, filtered |-> <<>>,
                  stats |-> NoStats, view |-> "nodata"]
    IN
    IF built.crashed THEN [none EXCEPT !.view = "crashed"]
    ELSE IF df = <<>> THEN none
    ELSE
    LET f == apply_filters(df, sel)
    IN  [none EXCEPT !.selection = sel,
                     !.filtered = f,
                     !.stats = IF f # <<>> THEN statistics(f) ELSE NoStats,
                     !.view = IF f # <<>> THEN "dashboard" ELSE "nomatch"]

-----------------------------------------------------------------------------
(* the inputs of the model *)

MaxRecords == 2     \* records of an input of prepare_timeline_data
MaxLots == 2        \* lots of a record
MaxFile == 2        \* records of data.json in a session
MaxPicks == 1       \* values picked in the filter widgets of a session
Day0 == 1000        \* the day the clock is at

Midnight == Day0 * SecondsPerDay

\* the instants Timestamp.now() returns: midnight, and later in the same day
Instants == {Midnight, Midnight + 1, Midnight + 43200, Midnight + 86399}

\* a text of n characters
Text(n) == [i \in 1..n |-> <<"a","b","c","d","e","f","g","h","i","j">>[(i % 10) + 1]]

With(item, key, value) ==
    [k \in DOMAIN item \cup {key} |-> IF k = key THEN value ELSE item[k]]

Without(item, key) == [k \in DOMAIN item \ {key} |-> item[k]]

VilleX == Str(<<"X">>)
VilleY == Str(<<"Y">>)
CoA == Str(<<"C","o"," ","A">>)
CoB == Str(<<"C","o"," ","B">>)
DupontSA == Str(<<"D","u",","," ","S","A">>)
SA == Str(<<"S","A">>)
Dept75 == Str(<<"7","5">>)
Dept13 == Str(<<"1","3">>)
Bio == Str(<<"B","i","o">>)
RizBio == Str(<<"r","i","z"," ","B","I","O">>)
Riz == Str(<<"R","I","Z">>)
Divers == Str(<<"d","i","v">>)

\* a well-formed record, ending in `days` days
Tender(id, days) ==
    [idweb            |-> Num(id),
     date_debut       |-> DateStr(Day0 - 30),
     date_fin         |-> DateStr(Day0 + days),
     objet            |-> Str(<<"A","O">>),
     nomacheteur      |-> VilleX,
     titulaire        |-> CoA,
     code_departement |-> Dept75,
     LOTS             |-> List(<<Bio>>),
     url_avis         |-> Str(<<"/">>)]

\* the raw records prepare_timeline_data is run on: the well-formed record
\* with one field changed at a time
BuildPool ==
    << \* date_fin around today
       Tender(1, -10), Tender(2, -1), Tender(3, 0), Tender(4, 1),
       Tender(5, 95),
       \* dates that raise, dates that are NaT, dates that are missing
       With(Tender(6, 10), "date_debut", Str(<<"b","i","e","n","t","o","t">>)),
       With(Tender(7, 10), "date_debut", Null),
       With(Tender(8, 10), "date_fin", Str(<<>>)),
       Without(Tender(9, 10), "date_debut"),
       Without(With(Tender(10, 10), "date_fin", Str(<<"?">>)), "idweb"),
       \* objet of 80, 81 and 100 characters, missing, of another type
       With(Tender(11, 10), "objet", Str(Text(TitleMax))),
       With(Tender(12, -10), "objet", Str(Text(TitleMax + 1))),
       With(Tender(13, 10), "objet", Str(Text(TitleMax + 20))),
       Without(Tender(14, 10), "objet"),
       With(Tender(15, 10), "objet", Null),
       \* titulaire
       With(Tender(16, 10), "titulaire", List(<<CoA, CoB>>)),
       With(Tender(17, 10), "titulaire", List(<<CoA, Num(7)>>)),
       Without(Tender(18, 10), "titulaire"),
       \* code_departement
       With(Tender(19, 10), "code_departement", List(<<Dept75, Dept13>>)),
       With(Tender(20, 10), "code_departement", List(<<Dept75, Null>>)),
       Without(Tender(21, 10), "code_departement"),
       \* nomacheteur
       Without(Tender(22, 10), "nomacheteur"),
       \* LOTS
       Without(Tender(23, 10), "LOTS"),
       With(Tender(24, 10), "LOTS", Null),
       With(Tender(25, 10), "LOTS", List(<<Riz, Num(3)>>)),
       With(Tender(26, 10), "LOTS", List(<<Null>>)) >>

\* the sequences of at most n elements of the sequence pool
RECURSIVE SeqsUpTo(_, _)
SeqsUpTo(pool, n) ==
    IF n = 0 THEN {<<>>}
    ELSE LET shorter == SeqsUpTo(pool, n - 1)
         IN  shorter \cup
             {Append(q, pool[i]) : q \in shorter, i \in 1..Len(pool)}

-----------------------------------------------------------------------------
(* prepare_timeline_data run on its own *)

BuildInputs == SeqsUpTo(BuildPool, MaxRecords)

\* data.json and the clock before the run
InitBuild ==
    /\ file \in BuildInputs
    /\ now \in Instants
    /\ data = <<>>
    /\ today = now
    /\ table = <<>>
    /\ warnings = <<>>
    /\ crashed = FALSE
    /\ selection = DefaultSelection
    /\ filtered = <<>>
    /\ stats = NoStats
    /\ view = "init"

\* data = load_data(); df = prepare_timeline_data(data)
Build ==
    /\ view = "init"
    /\ \E built \in {prepare_timeline_data(file, now)} :
       /\ data' = file
       /\ today' = now
       /\ table' = built.table
       /\ warnings' = built.warnings
       /\ crashed' = built.crashed
    /\ view' = "built"
    /\ UNCHANGED <<file, now, selection, filtered, stats>>

NextBuild == Build

SpecBuild == InitBuild /\ [][NextBuild]_vars

-----------------------------------------------------------------------------
(* prepare_timeline_data run on one record, over the lots it may hold *)

Fragments ==
    << <<>>, <<"P","O","U","L","E","T"," ">>, <<"B","i","o">>,
       <<"l","a">>, <<"i","t">>, <<"R","i","z">> >>

\* the lot names: two fragments one after the other
LotNames ==
    {Str(Fragments[i] \o Fragments[j]) :
        i \in 1..Len(Fragments), j \in 1..Len(Fragments)}

RECURSIVE ListsUpTo(_, _)
ListsUpTo(S, n) ==
    IF n = 0 THEN {<<>>}
    ELSE LET shorter == ListsUpTo(S, n - 1)
         IN  shorter \cup {Append(q, x) : q \in shorter, x \in S}

LotsInputs ==
    {<<Without(Tender(1, 10), "LOTS")>>} \cup
    {<<With(Tender(1, 10), "LOTS", List(l))>> : l \in ListsUpTo(LotNames, MaxLots)}

InitLots ==
    /\ file \in LotsInputs
    /\ now = Midnight
    /\ data = <<>>
    /\ today = now
    /\ table = <<>>
    /\ warnings = <<>>
    /\ crashed = FALSE
    /\ selection = DefaultSelection
    /\ filtered = <<>>
    /\ stats = NoStats
    /\ view = "init"

SpecLots == InitLots /\ [][NextBuild]_vars

-----------------------------------------------------------------------------
(* a session of the dashboard *)

\* the records data.json is made of
Catalogue ==
    << Tender(1, 10),
       [Tender(2, 95) EXCEPT !.nomacheteur = VilleY,
                             !.titulaire = List(<<CoA, CoB>>),
                             !.code_departement = List(<<Dept75, Dept13>>),
                             !.LOTS = List(<<Riz>>)],
       Without([Tender(3, 200) EXCEPT !.titulaire = List(<<DupontSA>>),
                                      !.code_departement = Dept13], "LOTS"),
       [Tender(4, 400) EXCEPT !.nomacheteur = VilleY,
                              !.titulaire = SA,
                              !.LOTS = List(<<Divers>>)],
       [Tender(5, 800) EXCEPT !.nomacheteur = VilleY,
                              !.titulaire = CoB,
                              !.code_departement = Dept13],
       [Tender(6, -10) EXCEPT !.LOTS = List(<<Divers, RizBio>>)],
       [Tender(7, 10) EXCEPT !.date_debut = Null] >>

\* the increasing sequences of at most n indices from lo to hi
RECURSIVE Picked(_, _, _)
Picked(lo, hi, n) ==
    IF n = 0 \/ lo > hi THEN {<<>>}
    ELSE Picked(lo + 1, hi, n) \cup
         {<<lo>> \o q : q \in Picked(lo + 1, hi, n - 1)}

\* the contents of data.json: at most MaxFile records of the catalogue,
\* in its order
Files ==
    {[i \in 1..Len(q) |-> Catalogue[q[i]]] :
        q \in Picked(1, Len(Catalogue), MaxFile)}

\* the clock of a session: midnight, then noon of the same day
SessionInstants == {Midnight, Midnight + 43200}

\* main(), the clock having moved on to some instant since the run before
Run(sel) ==
    \E t \in SessionInstants :
      /\ t >= now
      /\ now' = t
      /\ \E r \in {main(file, t, sel)} :
          /\ data' = r.data
          /\ today' = r.today
          /\ table' = r.table
          /\ warnings' = r.warnings
          /\ crashed' = r.crashed
          /\ selection' = r.selection
          /\ filtered' = r.filtered
          /\ stats' = r.stats
          /\ view' = r.view
      /\ UNCHANGED file

\* the state after the first run of a session
Init ==
    /\ file \in Files
    /\ now \in SessionInstants
    /\ LET r == main(file, now, DefaultSelection) IN
       /\ data = r.data
       /\ today = r.today
       /\ table = r.table
       /\ warnings = r.warnings
       /\ crashed = r.crashed
       /\ selection = r.selection
       /\ filtered = r.filtered
       /\ stats = r.stats
       /\ view = r.view

\* the widgets are on the page
Shown == view \in {"dashboard", "nomatch"}

\* the values picked in the widgets, the status apart
Picks(sel) ==
    Cardinality(sel.acheteurs) + Cardinality(sel.titulaires)
    + Cardinality(sel.departments) + Cardinality(sel.categories)
    + (IF sel.expiration # TousLesAO THEN 1 ELSE 0)

Toggle(S, x) == IF x \in S THEN S \ {x} ELSE S \cup {x}

MayToggle(S, x) == x \in S \/ Picks(selection) < MaxPicks

\* the page is run again with the widgets as they are
Rerun == Run(selection)

PickAcheteur ==
    /\ Shown
    /\ \E x \in acheteurs_options(table) :
          /\ MayToggle(selection.acheteurs, x)
          /\ Run([selection EXCEPT !.acheteurs = Toggle(@, x)])

PickTitulaire ==
    /\ Shown
    /\ \E x \in titulaires_options(table) :
          /\ MayToggle(selection.titulaires, x)
          /\ Run([selection EXCEPT !.titulaires = Toggle(@, x)])

PickDepartment ==
    /\ Shown
    /\ \E x \in departments_options(table) :
          /\ MayToggle(selection.departments, x)
          /\ Run([selection EXCEPT !.departments = Toggle(@, x)])

PickCategory ==
    /\ Shown
    /\ \E x \in categories_options(table) :
          /\ MayToggle(selection.categories, x)
          /\ Run([selection EXCEPT !.categories = Toggle(@, x)])

PickStatus ==
    /\ Shown
    /\ \E x \in status_options :
          Run([selection EXCEPT !.status = Toggle(@, x)])

ChooseExpiration ==
    /\ Shown
    /\ \E o \in expiration_options :
          /\ o # selection.expiration
          /\ \/ o = TousLesAO
             \/ selection.expiration # TousLesAO
             \/ Picks(selection) < MaxPicks
          /\ Run([selection EXCEPT !.expiration = o])

FilterChange ==
    \/ PickAcheteur
    \/ PickTitulaire
    \/ PickDepartment
    \/ PickCategory
    \/ PickStatus
    \/ ChooseExpiration

Next == Rerun \/ FilterChange

Spec == Init /\ [][Next]_vars

-----------------------------------------------------------------------------
(* what the properties below say of a raw record *)

GoodDate(item, key) == Has(item, key) /\ item[key].t = "date"

StrOrStrList(item, key) ==
    /\ Has(item, key)
    /\ item[key].t = "list" => AllStr(item[key].items)

\* a record with parseable dates, its required fields, and every field of
\* its expected type
WellFormed(item) ==
    /\ GoodDate(item, "date_debut")
    /\ GoodDate(item, "date_fin")
    /\ StrOrStrList(item, "titulaire")
    /\ StrOrStrList(item, "code_departement")
    /\ Has(item, "objet") /\ item.objet.t = "str"
    /\ Has(item, "nomacheteur")
    /\ Has(item, "LOTS") => (item.LOTS.t = "list" /\ AllStr(item.LOTS.items))

Accepted(raws) == SelectSeq(raws, WellFormed)

Built == view = "built"

\* kw occurs in s: a slice of s is kw
IsSubstring(kw, s) ==
    \E a \in 0..Len(s) :
        a + Len(kw) <= Len(s) /\ SubSeq(s, a + 1, a + Len(kw)) = kw

-----------------------------------------------------------------------------
(* C1 *)

DayOf(instant) == instant \div SecondsPerDay

\* C1: whatever the time of day of `today`, a row whose date_fin is the day
\* before today's date has Days_Left = -1 and is Termine, and a row whose
\* date_fin is the day after today's date has Days_Left = 1 and is En cours.
C1_WholeDayCount ==
    Built =>
        \A i \in 1..Len(table) :
            /\ DayOf(table[i].Finish) = DayOf(today) - 1
                   => table[i].Days_Left = -1 /\ table[i].Status = Termine
            /\ DayOf(table[i].Finish) = DayOf(today) + 1
                   => table[i].Days_Left = 1 /\ table[i].Status = EnCours

-----------------------------------------------------------------------------
(* C3 *)

BadDates(item) == ~GoodDate(item, "date_debut") \/ ~GoodDate(item, "date_fin")

\* C3: a raw record whose date_debut or date_fin is unparseable, missing or
\* not-a-time is not in the table and has a warning with its id; the rows and
\* the warnings together are as many as the raw records.
C3_EveryDropWarned ==
    (Built /\ ~crashed) =>
        /\ Len(table) + Len(warnings) = Len(data)
        /\ \A i \in 1..Len(data) :
               BadDates(data[i]) =>
                   \E w \in 1..Len(warnings) :
                       warnings[w].id = Get(data[i], "idweb", IdInconnu)

-----------------------------------------------------------------------------
(* C4 *)

\* C4: a malformed record does not abort the build: the table is made of the
\* rows of the well-formed records of the input, in the order of the input.
C4_MalformedNonFatal ==
    Built =>
        /\ ~crashed
        /\ Len(table) = Len(Accepted(data))
        /\ \A i \in 1..Len(table) :
               table[i] = normalize(Accepted(data)[i], today).row

-----------------------------------------------------------------------------
(* C7 *)

\* C7: categorize_lot(lot) holds category C exactly when a keyword of C
\* occurs in the lower-cased lot name, so a name with "poulet" and "bio" in
\* any casing gives Volaille and BIO; the categories of a row are the union
\* of categorize_lot over its lots, none when LOTS is absent.
C7_Categories ==
    Built =>
        /\ Len(table) = Len(data)
        /\ \A i \in 1..Len(table) :
             LET lots == Get(data[i], "LOTS", List(<<>>)).items IN
             /\ table[i].Lots = Texts(lots)
             /\ \A n \in 1..Len(lots), c \in 1..Len(category_keywords) :
                   LET entry == category_keywords[c]
                       name  == lots[n].str
                   IN  /\ entry.category \in Range(categorize_lot(name))
                          <=> \E k \in 1..Len(entry.keywords) :
                                 IsSubstring(entry.keywords[k], lower(name))
                       /\ (/\ IsSubstring(<<"p","o","u","l","e","t">>, lower(name))
                           /\ IsSubstring(<<"b","i","o">>, lower(name)))
                          => {"Volaille", "BIO"} \subseteq table[i].Categories
             /\ table[i].Categories =
                    UNION {Range(categorize_lot(lots[n].str)) : n \in 1..Len(lots)}
             /\ ~Has(data[i], "LOTS") => table[i].Categories = {}

\* a row of two lots, one with POULET and Bio in capitals, one without keyword
C7_Witness ==
    /\ Built
    /\ Len(table) = 1
    /\ Len(table[1].Lots) = 2
    /\ table[1].Lots[1] = <<"P","O","U","L","E","T"," ","B","i","o">>
    /\ table[1].Lots[2] = <<"i","t","l","a">>
    /\ table[1].Categories = {"Volaille", "BIO"}

-----------------------------------------------------------------------------
(* C8 *)

\* C8: every row has a start and a finish instant, is Termine exactly when
\* its Days_Left is negative and En cours otherwise, and its title is the tag
\* of that status followed by objet when objet has at most 80 characters, by
\* its first 80 characters and the ellipsis when it has more.
C8_RowInvariant ==
    Built =>
        /\ Len(table) <= Len(Accepted(data))
        /\ \A i \in 1..Len(table) :
             LET r     == table[i]
                 objet == Accepted(data)[i].objet.str
             IN  /\ r.Start \in Int /\ r.Finish \in Int
                 /\ r.Status = Termine <=> r.Days_Left < 0
                 /\ r.Status = EnCours <=> r.Days_Left >= 0
                 /\ r.Task = <<"[">> \o r.Status \o <<"]", " ">> \o
                       (IF Len(objet) <= 80 THEN objet
                        ELSE SubSeq(objet, 1, 80) \o <<".", ".", ".">>)

\* a row En cours with an objet of 80 characters, then a row Termine with an
\* objet of 81
C8_Witness ==
    /\ Built
    /\ Len(table) = 2
    /\ table[1].Status = EnCours /\ Len(data[1].objet.str) = 80
    /\ table[2].Status = Termine /\ Len(data[2].objet.str) = 81
    /\ Len(table[1].Task) = 11 + 80
    /\ Len(table[2].Task) = 10 + 80 + 3

-----------------------------------------------------------------------------
(* C2 *)

\* the threshold each option of the horizon stands for
HorizonDays(option) ==
    IF option = Dans3Mois THEN 90
    ELSE IF option = Dans6Mois THEN 180
    ELSE IF option = Dans1An THEN 365
    ELSE IF option = Dans1AnEtDemi THEN 547
    ELSE 730

WithinHorizon(r, option) ==
    option = TousLesAO \/ r.Days_Left <= HorizonDays(option)

OnlyHorizon ==
    /\ selection.acheteurs = {}
    /\ selection.titulaires = {}
    /\ selection.departments = {}
    /\ selection.status = {}
    /\ selection.categories = {}

\* C2: with no other filter set, each horizon option keeps exactly the rows
\* with Days_Left <= its own threshold (90, 180, 365, 547, 730), and the
\* option for all keeps every row.
C2_HorizonThresholds ==
    (Shown /\ OnlyHorizon) =>
        filtered = SelectSeq(table,
                       LAMBDA r : WithinHorizon(r, selection.expiration))

-----------------------------------------------------------------------------
(* C5 *)

\* r matches at least one selected value of each dimension that has some
Satisfies(r, sel) ==
    /\ sel.acheteurs # {} => r.Resource \in sel.acheteurs
    /\ sel.titulaires # {} =>
           titulaire_names(r.Titulaire) \cap sel.titulaires # {}
    /\ sel.departments # {} => Range(r.Departments) \cap sel.departments # {}
    /\ WithinHorizon(r, sel.expiration)
    /\ sel.status # {} => r.Status \in sel.status
    /\ sel.categories # {} => r.Categories \cap sel.categories # {}

\* C5: the filtered rows are the rows of the table, in its order, that
\* satisfy every dimension with a selection; a dimension without selection
\* restricts nothing.
C5_AndOfOrs ==
    Shown =>
        filtered = SelectSeq(table, LAMBDA r : Satisfies(r, selection))

-----------------------------------------------------------------------------
(* C6 *)

\* the awardee names of a raw record: the elements of its titulaire list,
\* or its one titulaire, trimmed
AwardeeNames(item) ==
    IF item.titulaire.t = "list"
    THEN {strip(item.titulaire.items[i].str) : i \in 1..Len(item.titulaire.items)}
    ELSE {strip(pystr(item.titulaire))}

OnlyTitulaires ==
    /\ selection.acheteurs = {}
    /\ selection.titulaires # {}
    /\ selection.departments = {}
    /\ selection.expiration = TousLesAO
    /\ selection.status = {}
    /\ selection.categories = {}

\* C6: with a selection S of awardees and no other filter, a row is kept
\* exactly when one of the awardee names of its record is in S.
C6_AwardeeNames ==
    (Shown /\ OnlyTitulaires) =>
        /\ Len(table) = Len(Accepted(data))
        /\ \A i \in 1..Len(table) :
               (\E j \in 1..Len(filtered) : filtered[j] = table[i])
               <=> AwardeeNames(Accepted(data)[i]) \cap selection.titulaires # {}

-----------------------------------------------------------------------------
(* C9 *)

\* C9 as stated: a change of the filters leaves the table, and the `today`
\* it was computed against, as they were.
C9_FilterKeepsTable ==
    [][selection' # selection => (table' = table /\ today' = today)]_vars

\* what of a row does not depend on `today`
Undated(r) ==
    [Start |-> r.Start, Finish |-> r.Finish, Resource |-> r.Resource,
     Department |-> r.Department, Departments |-> r.Departments,
     Titulaire |-> r.Titulaire, Lots |-> r.Lots,
     Categories |-> r.Categories, URL |-> r.URL,
     Objet |-> SubSeq(r.Task, Len(r.Status) + 4, Len(r.Task))]

\* C9, amended: every interaction, a change of the filters included, runs
\* main again, which rebuilds the table from the data against the `today`
\* of that run.  With the same data the table keeps the same records in the
\* same order, where only Days_Left, Status and the status tag of the title
\* may differ, and they differ only when `today` does.
C9_RebuiltEachRun ==
    [][data' = data =>
          /\ today' >= today
          /\ Len(table') = Len(table)
          /\ \A i \in 1..Len(table) : Undated(table'[i]) = Undated(table[i])
          /\ today' = today => table' = table]_vars

\* after a change of the filters made at noon, some rows are filtered out
C9_Witness ==
    /\ view = "dashboard"
    /\ today = Midnight + 43200
    /\ selection.expiration = Dans3Mois
    /\ Len(table) = 2
    /\ Len(filtered) = 1

-----------------------------------------------------------------------------
(* C10 *)

\* C10: over filtered rows that are not empty, the statistics are the number
\* of rows, the number of rows En cours, the number of rows Termine, and the
\* number of rows with 0 <= Days_Left <= 90.
C10_Statistics ==
    (Shown /\ filtered # <<>>) =>
        /\ stats.shown
        /\ stats.total = Len(filtered)
        /\ stats.active_aos =
               Cardinality({i \in 1..Len(filtered) :
                               filtered[i].Status = EnCours})
        /\ stats.finished_aos =
               Cardinality({i \in 1..Len(filtered) :
                               filtered[i].Status = Termine})
        /\ stats.expiring_soon =
               Cardinality({i \in 1..Len(filtered) :
                               /\ 0 <= filtered[i].Days_Left
                               /\ filtered[i].Days_Left <= 90})

\* two rows shown, one ending within 90 days, one already ended
C10_Witness ==
    /\ view = "dashboard"
    /\ Len(filtered) = 2
    /\ filtered[1].Days_Left \in 0..90
    /\ filtered[2].Days_Left < 0
    /\ stats = [shown |-> TRUE, total |-> 2, active_aos |-> 1,
                expiring_soon |-> 1, finished_aos |-> 1]

=============================================================================
